---- MODULE Spec2Model ----
(***************************************************************************)
(* Model of src/nets.py: FeatureNet (feature fusion) and UserNet (user     *)
(* scoring with attention pooling).                                        *)
(*                                                                         *)
(* Tensors are modelled with exact arithmetic.  A 1-D tensor is a sequence *)
(* of numbers, a 2-D tensor a sequence of rows.  Parameters, embeddings    *)
(* and inputs are integers; the outputs of softmax and of forward are      *)
(* rationals <<numerator, denominator>> in lowest terms.  exp is modelled  *)
(* by the powers of two: positive, strictly increasing and turning sums    *)
(* into products, as exp is.  Floating-point rounding is not modelled.     *)
(***************************************************************************)
EXTENDS Integers, Sequences, FiniteSets, TLC

VARIABLES
    users,           \* the list of user ids given to UserNet.__init__
    items,           \* the list of item ids given to UserNet.__init__
    net,             \* the attributes of the UserNet object (self)
    constructed,     \* history: the attributes as __init__ left them
    pc,              \* "idle": the caller is between calls; "returned": a call has just ended
    call,            \* the call that ended last: its operation and arguments
    ret,             \* what that call gave back: a value or a raised error
    probe,           \* history: the first call of the run and its result, when recorded
    lin              \* the arguments and results of the linearity run of score

vars == <<users, items, net, constructed, pc, call, ret, probe, lin>>

-----------------------------------------------------------------------------
(* Bounds *)

EmbDim == 2          \* emb_dim of the modelled networks
FeatureDim == 1      \* feature_dim of the networks built with fusion
MaxUsers == 2        \* longest user list
MaxItems == 2        \* longest item list
MaxN == 3            \* longest item_ids sequence of a call
MaxSeed == 1         \* parameter profiles 0..MaxSeed

UserIds == {"u1", "u2"}
ItemIds == {"a", "b"}

\* the sequence f, with its elements computed once
Vec(f) == f \o <<>>

SeqsUpTo(S, lo, hi) == UNION {[1..n -> S] : n \in lo..hi}

-----------------------------------------------------------------------------
(* Exact arithmetic *)

RECURSIVE GCD(_, _)
GCD(a, b) == IF b = 0 THEN a ELSE GCD(b, a % b)

Abs(x) == IF x < 0 THEN -x ELSE x

\* the rational n/d, d > 0, in lowest terms
Rat(n, d) ==
    LET g == GCD(Abs(n), d)
    IN  <<n \div g, d \div g>>

RECURSIVE Pow2(_)
Pow2(k) == IF k = 0 THEN 1 ELSE 2 * Pow2(k - 1)

RECURSIVE SumSeq(_)
SumSeq(s) == IF s = <<>> THEN 0 ELSE Head(s) + SumSeq(Tail(s))

RECURSIVE MinSeq(_)
MinSeq(s) ==
    IF Len(s) = 1 THEN s[1]
    ELSE LET m == MinSeq(Tail(s)) IN IF s[1] < m THEN s[1] ELSE m

-----------------------------------------------------------------------------
(* Errors and results *)

\* what a call gives back.  kind is "ok" or the exception raised; at is the
\* statement that raised; layers lists the layers entered, in order.
\* attn holds the logits and the attention weights forward computed.
Result(kind, value, attn, layers, at) ==
    [kind |-> kind, value |-> value, attn |-> attn, layers |-> layers, at |-> at]

NoAttn == [logits |-> <<>>, weights |-> <<>>]

Raise(kind, layers, at) == Result(kind, <<>>, NoAttn, layers, at)

Return(value, attn, layers) == Result("ok", value, attn, layers, "return")

-----------------------------------------------------------------------------
(* Construction *)

\* the value nn.Embedding(n, dim) is initialised with, under profile seed
EmbeddingInit(seed, n, dim) ==
    [i \in 1..n |-> [d \in 1..dim |-> ((seed + i + d + i * d) % 3) - 1]]

\* nn.Linear(inf, outf) after _kaiming_: kaiming-normal weight, zero bias
kaiming_(seed, inf, outf) ==
    [weight |-> [i \in 1..outf |-> [j \in 1..inf |-> ((seed + i + 2 * j + 2 * i * j) % 3) - 1]],
     bias   |-> [i \in 1..outf |-> 0]]

\* nn.Linear(inf, outf) left at the framework's default initialisation.
\* Profile 0 is the all-zero layer, which gives every item the same logit.
Linear_default(seed, inf, outf) ==
    [weight |-> [i \in 1..outf |-> [j \in 1..inf |->
                    IF seed = 0 THEN 0 ELSE ((seed + j) % 3) - 1]],
     bias   |-> [i \in 1..outf |-> seed]]

FeatureNet__init__(seed, emb_dim, feature_dim) ==
    [l1 |-> kaiming_(seed + 1, emb_dim + feature_dim, emb_dim),
     l2 |-> kaiming_(seed + 2, emb_dim, emb_dim)]

RECURSIVE create_dict_loop(_, _)
\* the dictionary after the first k iterations of the loop of _create_dict
create_dict_loop(array, k) ==
    IF k = 0 THEN <<>>
    ELSE LET res == create_dict_loop(array, k - 1)
             v   == array[k]
         IN  [x \in (DOMAIN res) \cup {v} |-> IF x = v THEN k - 1 ELSE res[x]]

\* mutant: enumerate(array, 1), the indices counted from 1
create_dict_from1(array) ==
    LET res == create_dict_loop(array, Len(array))
    IN  [x \in DOMAIN res |-> res[x] + 1]

create_dict(array) == create_dict_loop(array, Len(array))

\* mutant: the table sized by the number of distinct identities
num_embeddings_distinct(array) == Cardinality({array[i] : i \in 1..Len(array)})

\* num_users, num_items: the number of rows of an embedding table
num_embeddings(array) == Len(array)

None == [none |-> TRUE]

IsNone(x) == "none" \in DOMAIN x

UserNet__init__(us, its, emb_dim, feature_dim, seed) ==
    LET feats == IF feature_dim > 0
                 THEN FeatureNet__init__(seed, emb_dim, feature_dim)
                 ELSE None
        f     == IF ~IsNone(feats) THEN 1 ELSE 0
    IN  [emb_dim        |-> emb_dim,
         user_dict      |-> create_dict(us),
         item_dict      |-> create_dict(its),
         feats          |-> feats,
         user_embedding |-> EmbeddingInit(seed + 1, num_embeddings(us), emb_dim),
         item_embedding |-> EmbeddingInit(seed, num_embeddings(its), emb_dim),
         l1             |-> kaiming_(seed, (2 + f) * emb_dim, emb_dim),
         l2             |-> Linear_default(seed, emb_dim, 1)]

-----------------------------------------------------------------------------
(* Tensor operations *)

\* torch.tensor(data): None cannot be converted; a list becomes a tensor of
\* the same values.  A tensor is [ndim, dtype, data].
Tensor(ndim, dtype, data) == [ndim |-> ndim, dtype |-> dtype, data |-> data]

\* torch.tensor(list of ints): an empty list gives a float32 tensor
tensor_of_indices(idx) ==
    Tensor(1, IF idx = <<>> THEN "float32" ELSE "int64", idx)

\* nn.Embedding.forward on a 0-d index: the row of the table, if there is one
embedding_row(table, i) == table[i + 1]

index_in_range(table, i) == 0 <= i /\ i < Len(table)

\* x.expand(n, -1) of a 1-D tensor
expand(x, n) == Vec([k \in 1..n |-> x])

in_features(layer) == Len(layer.weight[1])

\* nn.Linear on one row: weight . row + bias
linear_row(layer, row) ==
    Vec([i \in 1..Len(layer.weight) |->
        SumSeq([j \in 1..Len(row) |-> layer.weight[i][j] * row[j]]) + layer.bias[i]])

relu_row(row) == Vec([i \in 1..Len(row) |-> IF row[i] > 0 THEN row[i] ELSE 0])

\* the rational p + q and the rational k * q
RatAdd(p, q) == Rat(p[1] * q[2] + q[1] * p[2], p[2] * q[2])

RatScale(k, q) == Rat(k * q[1], q[2])

RECURSIVE RatSum(_)
RatSum(s) == IF s = <<>> THEN <<0, 1>> ELSE RatAdd(Head(s), RatSum(Tail(s)))

\* the entries of x that softmax normalises together with x[n][j]
softmax_group(x, dim, n, j) ==
    IF dim = 0 THEN [m \in 1..Len(x) |-> x[m][j]] ELSE x[n]

\* F.softmax(x, dim) of a 2-D tensor: exp(x) / sum of exp(x) along dim
SoftmaxAlong(x, dim) ==
    Vec([n \in 1..Len(x) |-> Vec([j \in 1..Len(x[n]) |->
        LET g == Vec(softmax_group(x, dim, n, j))
            m == MinSeq(g)
        IN  Rat(Pow2(x[n][j] - m), SumSeq([k \in 1..Len(g) |-> Pow2(g[k] - m)]))])])

\* mutant: F.softmax(x, 1), across the single column of logits
softmax_dim1(x) == SoftmaxAlong(x, 1)

\* F.softmax(x, 0) of forward: across the items
softmax(x) == SoftmaxAlong(x, 0)

\* mutant: (items * x).sum(0), the user's own embedding left out
attend_no_residual(user, its, x) ==
    Vec([d \in 1..Len(user) |->
        RatSum([n \in 1..Len(its) |-> RatScale(its[n][d], x[n][1])])])

\* mutant: user + (items * x).mean(0)
attend_mean(user, its, x) ==
    Vec([d \in 1..Len(user) |->
        RatAdd(<<user[d], 1>>,
               LET t == RatSum([n \in 1..Len(its) |-> RatScale(its[n][d], x[n][1])])
               IN  Rat(t[1], t[2] * Len(its)))])

\* user + (items * x).sum(0), x of shape (N, 1)
attend(user, its, x) ==
    Vec([d \in 1..Len(user) |->
        RatAdd(<<user[d], 1>>,
               RatSum([n \in 1..Len(its) |-> RatScale(its[n][d], x[n][1])]))])

-----------------------------------------------------------------------------
(* FeatureNet.forward *)

\* components is a tensor of features: (F,) or (M, F)
FeatureNet_forward(feats, user, components) ==
    LET x == IF components.ndim > 1
             THEN Vec([n \in 1..Len(components.data) |-> user \o components.data[n]])
             ELSE <<user \o components.data>>
    IN  IF \E n \in 1..Len(x) : Len(x[n]) # in_features(feats.l1)
        THEN Raise("RuntimeError", <<"feats.l1">>, "feats.l1")
        ELSE LET h == Vec([n \in 1..Len(x) |-> relu_row(linear_row(feats.l1, x[n]))])
                 y == Vec([n \in 1..Len(h) |-> relu_row(linear_row(feats.l2, h[n]))])
             IN  Return(Tensor(components.ndim, "float32",
                               IF components.ndim > 1 THEN y ELSE y[1]),
                        NoAttn, <<"feats.l1", "feats.l2">>)

-----------------------------------------------------------------------------
(* UserNet *)

_get_user(self, user_id) ==
    IF user_id \in DOMAIN self.user_dict
    THEN Return(self.user_dict[user_id], NoAttn, <<>>)
    ELSE Raise("KeyError", <<>>, "_get_user")

\* mutant: self.item_dict.get(item, 0), an unknown id taken for index 0
_get_items_default(self, item_ids) ==
    Return(tensor_of_indices(Vec([n \in 1..Len(item_ids) |->
               IF item_ids[n] \in DOMAIN self.item_dict
               THEN self.item_dict[item_ids[n]] ELSE 0])),
           NoAttn, <<>>)

_get_items(self, item_ids) ==
    IF \A n \in 1..Len(item_ids) : item_ids[n] \in DOMAIN self.item_dict
    THEN Return(tensor_of_indices(Vec([n \in 1..Len(item_ids) |-> self.item_dict[item_ids[n]]])),
                NoAttn, <<>>)
    ELSE Raise("KeyError", <<>>, "_get_items")

\* nn.Embedding.forward on the tensor of indices idx
item_embedding(self, idx) ==
    IF idx.dtype # "int64"
    THEN Raise("RuntimeError", <<"item_embedding">>, "item_embedding")
    ELSE IF \E n \in 1..Len(idx.data) : ~index_in_range(self.item_embedding, idx.data[n])
    THEN Raise("IndexError", <<"item_embedding">>, "item_embedding")
    ELSE Return(Vec([n \in 1..Len(idx.data) |-> embedding_row(self.item_embedding, idx.data[n])]),
                NoAttn, <<"item_embedding">>)

user_embedding(self, i) ==
    IF ~index_in_range(self.user_embedding, i)
    THEN Raise("IndexError", <<"user_embedding">>, "user_embedding")
    ELSE Return(embedding_row(self.user_embedding, i), NoAttn, <<"user_embedding">>)

get_items(self, item_ids) ==
    LET idx == _get_items(self, item_ids)
    IN  IF idx.kind # "ok" THEN idx ELSE item_embedding(self, idx.value)

\* torch.tensor(features, dtype=torch.float32): None is no number and the
\* conversion raises (recorded as TypeError); a list keeps its values
tensor_of_features(features) ==
    IF IsNone(features)
    THEN Raise("TypeError", <<>>, "torch.tensor")
    ELSE Return(Tensor(features.ndim, "float32", features.data), NoAttn, <<>>)

\* torch.cat([usern, items, components], dim=-1): an empty 1-D tensor is
\* skipped; the others must all be 2-D with the same number of rows
cat_forward(usern, its, components) ==
    IF components.ndim = 1 /\ components.data = <<>>
    THEN Return(Vec([n \in 1..Len(its) |-> usern[n] \o its[n]]), NoAttn, <<>>)
    ELSE IF components.ndim # 2 \/ Len(components.data) # Len(its)
    THEN Raise("RuntimeError", <<>>, "torch.cat")
    ELSE Return(Vec([n \in 1..Len(its) |-> usern[n] \o its[n] \o components.data[n]]),
                NoAttn, <<>>)

\* lines 98-110 of forward: the scoring network and the attention pooling
forward_attention(self, user, its, components, layers) ==
    LET usern == expand(user, Len(its))
        x0    == cat_forward(usern, its, components)
    IN  IF x0.kind # "ok" THEN Raise(x0.kind, layers, x0.at)
        ELSE IF \E n \in 1..Len(its) : Len(x0.value[n]) # in_features(self.l1)
        THEN Raise("RuntimeError", layers \o <<"l1">>, "l1")
        ELSE LET x1 == Vec([n \in 1..Len(its) |-> relu_row(linear_row(self.l1, x0.value[n]))])
                 x2 == Vec([n \in 1..Len(its) |-> linear_row(self.l2, x1[n])])
                 x3 == softmax(x2)
             IN  Return(attend(user, its, x3),
                        [logits  |-> Vec([n \in 1..Len(its) |-> x2[n][1]]),
                         weights |-> Vec([n \in 1..Len(its) |-> x3[n][1]])],
                        layers \o <<"l1", "l2">>)

\* mutant: "if self.feats is not None and features is not None", missing
\* features taken for fusion disabled
forward_components_skip(self, user, its, features, layers) ==
    IF ~IsNone(self.feats) /\ ~IsNone(features)
    THEN LET t == tensor_of_features(features)
             c == FeatureNet_forward(self.feats, user, t.value)
         IN  IF c.kind # "ok" THEN Raise(c.kind, layers \o c.layers, c.at)
             ELSE forward_attention(self, user, its, c.value, layers \o c.layers)
    ELSE forward_attention(self, user, its, Tensor(1, "float32", <<>>), layers)

\* lines 93-96 of forward: the components, then the rest
forward_components(self, user, its, features, layers) ==
    IF ~IsNone(self.feats)
    THEN LET t == tensor_of_features(features)
         IN  IF t.kind # "ok" THEN Raise(t.kind, layers, t.at)
             ELSE LET c == FeatureNet_forward(self.feats, user, t.value)
                  IN  IF c.kind # "ok" THEN Raise(c.kind, layers \o c.layers, c.at)
                      ELSE forward_attention(self, user, its, c.value, layers \o c.layers)
    ELSE forward_attention(self, user, its, Tensor(1, "float32", <<>>), layers)

forward(self, user_id, item_ids, features) ==
    LET ui == _get_user(self, user_id)
    IN  IF ui.kind # "ok" THEN ui
        ELSE LET user == user_embedding(self, ui.value)
             IN  IF user.kind # "ok" THEN user
                 ELSE LET ii == _get_items(self, item_ids)
                      IN  IF ii.kind # "ok" THEN Raise(ii.kind, user.layers, ii.at)
                          ELSE LET its == item_embedding(self, ii.value)
                               IN  IF its.kind # "ok"
                                   THEN Raise(its.kind, user.layers \o its.layers, its.at)
                                   ELSE forward_components(self, user.value, its.value,
                                            features, user.layers \o its.layers)

\* usern * items with broadcasting of a dimension of size 1, or the failure
broadcastable(a, b) == a = b \/ a = 1 \/ b = 1

\* mutant: (usern * items).sum(0), the sum taken down the columns
score_sum0(user, its) ==
    LET usern == expand(user, Len(its))
    IN  Return(Vec([d \in 1..Len(user) |->
                   SumSeq([n \in 1..Len(its) |-> usern[n][d] * its[n][d]])]),
               NoAttn, <<>>)

\* UserNet.score: (usern * items).sum(1)
score(user, its) ==
    LET usern == expand(user, Len(its))
    IN  IF \E n \in 1..Len(its) : ~broadcastable(Len(usern[n]), Len(its[n]))
        THEN Raise("RuntimeError", <<>>, "mul")
        ELSE Return(Vec([n \in 1..Len(its) |->
                        LET w == IF Len(usern[n]) > Len(its[n]) THEN Len(usern[n]) ELSE Len(its[n])
                        IN  SumSeq([d \in 1..w |->
                                (IF Len(usern[n]) = 1 THEN usern[n][1] ELSE usern[n][d])
                              * (IF Len(its[n]) = 1 THEN its[n][1] ELSE its[n][d])])]),
                    NoAttn, <<>>)

-----------------------------------------------------------------------------
(* Inputs of the calls *)

\* a tensor of n rows (or 1-D when n = 0) of width w
FeatureValues(n, w) ==
    IF n = 0 THEN [ndim |-> 1, data |-> [j \in 1..w |-> j % 2]]
    ELSE [ndim |-> 2, data |-> [i \in 1..n |-> [j \in 1..w |-> (i + j) % 2]]]

\* what a caller passes as features with N item ids: nothing, one feature
\* vector, a matrix of N rows of width feature_dim or one more, or a matrix
\* of N + 1 rows
FeatureArgs(N) ==
    {None, FeatureValues(0, FeatureDim)}
    \cup {FeatureValues(IF N = 0 THEN 1 ELSE N, w) : w \in {FeatureDim, FeatureDim + 1}}
    \cup {FeatureValues(N + 1, FeatureDim)}

ItemIdSeqs == SeqsUpTo(ItemIds, 0, MaxN)

ScoreVector(s, w) == [d \in 1..w |-> ((s + d) % 3) - 1]

ScoreMatrix(s, n, w) == [i \in 1..n |-> [d \in 1..w |-> ((s + 2 * i + d) % 4) - 1]]

NoCall == [op |-> "none"]

NoRet == Result("none", <<>>, NoAttn, <<>>, "none")

NoLin == [phase |-> "off"]

NoProbe == [armed |-> FALSE, call |-> NoCall, ret |-> NoRet, others |-> FALSE]

\* the history of calls: the first call c and its result r are kept, and
\* whether a different call was made after it
Remember(p, c, r) ==
    IF ~p.armed THEN p
    ELSE IF p.call.op = "none" THEN [p EXCEPT !.call = c, !.ret = r]
    ELSE IF c.op # p.call.op \/ c # p.call THEN [p EXCEPT !.others = TRUE]
    ELSE p

-----------------------------------------------------------------------------
(* The state machine: construction, then calls one after the other *)

Init ==
    \E us \in SeqsUpTo(UserIds, 1, MaxUsers), its \in SeqsUpTo(ItemIds, 1, MaxItems),
       feature_dim \in {0, FeatureDim}, seed \in 0..MaxSeed :
        /\ users = us
        /\ items = its
        /\ net = UserNet__init__(us, its, EmbDim, feature_dim, seed)
        /\ constructed = net
        /\ pc = "idle"
        /\ call = NoCall
        /\ ret = NoRet
        /\ probe = NoProbe
        /\ lin = NoLin

Call_get_user ==
    /\ pc = "idle"
    /\ \E user_id \in UserIds :
        /\ call' = [op |-> "_get_user", user_id |-> user_id]
        /\ ret' = _get_user(net, user_id)
        /\ probe' = Remember(probe, call', ret')
    /\ pc' = "returned"
    /\ UNCHANGED <<users, items, net, constructed, lin>>

Call_get_items ==
    /\ pc = "idle"
    /\ \E item_ids \in ItemIdSeqs :
        /\ call' = [op |-> "_get_items", item_ids |-> item_ids]
        /\ ret' = _get_items(net, item_ids)
        /\ probe' = Remember(probe, call', ret')
    /\ pc' = "returned"
    /\ UNCHANGED <<users, items, net, constructed, lin>>

Call_get_item_embeddings ==
    /\ pc = "idle"
    /\ \E item_ids \in ItemIdSeqs :
        /\ call' = [op |-> "get_items", item_ids |-> item_ids]
        /\ ret' = get_items(net, item_ids)
        /\ probe' = Remember(probe, call', ret')
    /\ pc' = "returned"
    /\ UNCHANGED <<users, items, net, constructed, lin>>

\* mutant: the result added in place into the user's row of the table
Call_forward_inplace ==
    /\ pc = "idle"
    /\ \E user_id \in UserIds, item_ids \in ItemIdSeqs :
        \E features \in FeatureArgs(Len(item_ids)) :
            /\ call' = [op |-> "forward", user_id |-> user_id,
                        item_ids |-> item_ids, features |-> features]
            /\ ret' = forward(net, user_id, item_ids, features)
            /\ probe' = Remember(probe, call', ret')
            /\ net' = IF ret'.kind = "ok"
                      THEN [net EXCEPT !.user_embedding[net.user_dict[user_id] + 1] =
                               Vec([d \in 1..net.emb_dim |-> ret'.value[d][1]])]
                      ELSE net
    /\ pc' = "returned"
    /\ UNCHANGED <<users, items, constructed, lin>>

\* mutant: dropout left active, the scoring weights of l2 zeroed at random
Call_forward_dropout ==
    /\ pc = "idle"
    /\ \E user_id \in UserIds, item_ids \in ItemIdSeqs, drop \in BOOLEAN :
        \E features \in FeatureArgs(Len(item_ids)) :
            /\ call' = [op |-> "forward", user_id |-> user_id,
                        item_ids |-> item_ids, features |-> features]
            /\ ret' = forward(IF drop
                              THEN [net EXCEPT !.l2.weight = <<[j \in 1..net.emb_dim |-> 0]>>]
                              ELSE net,
                              user_id, item_ids, features)
            /\ probe' = Remember(probe, call', ret')
    /\ pc' = "returned"
    /\ UNCHANGED <<users, items, net, constructed, lin>>

Call_forward ==
    /\ pc = "idle"
    /\ \E user_id \in UserIds, item_ids \in ItemIdSeqs :
        \E features \in FeatureArgs(Len(item_ids)) :
            /\ call' = [op |-> "forward", user_id |-> user_id,
                        item_ids |-> item_ids, features |-> features]
            /\ ret' = forward(net, user_id, item_ids, features)
            /\ probe' = Remember(probe, call', ret')
    /\ pc' = "returned"
    /\ UNCHANGED <<users, items, net, constructed, lin>>

Call_score ==
    /\ pc = "idle"
    /\ \E s \in 0..MaxSeed, w \in {1, EmbDim}, n \in 1..2, wi \in {1, EmbDim, EmbDim + 1} :
        /\ call' = [op |-> "score", user |-> ScoreVector(s, w), items |-> ScoreMatrix(s, n, wi)]
        /\ ret' = score(ScoreVector(s, w), ScoreMatrix(s, n, wi))
        /\ probe' = Remember(probe, call', ret')
    /\ pc' = "returned"
    /\ UNCHANGED <<users, items, net, constructed, lin>>

\* the caller takes the result (or the exception) and is ready for its next call
Caller_continues ==
    /\ pc = "returned"
    /\ pc' = "idle"
    /\ call' = NoCall
    /\ ret' = NoRet
    /\ UNCHANGED <<users, items, net, constructed, probe, lin>>

Next ==
    \/ Call_get_user
    \/ Call_get_items
    \/ Call_get_item_embeddings
    \/ Call_forward
    \/ Call_score
    \/ Caller_continues

Spec == Init /\ [][Next]_vars

-----------------------------------------------------------------------------
(* Repeated calls: the same state machine, with the first call recorded *)

InitDet ==
    \E feature_dim \in {0, FeatureDim} :
        /\ users = <<"u1">>
        /\ items = <<"a", "b">>
        /\ net = UserNet__init__(users, items, EmbDim, feature_dim, MaxSeed)
        /\ constructed = net
        /\ pc = "idle"
        /\ call = NoCall
        /\ ret = NoRet
        /\ probe = [NoProbe EXCEPT !.armed = TRUE]
        /\ lin = NoLin

SpecDet == InitDet /\ [][Next]_vars

-----------------------------------------------------------------------------
(* score on a linear combination of item matrices *)

\* a * I1 + b * I2 of two matrices of the same shape
LinearCombination(a, I1, b, I2) ==
    Vec([n \in 1..Len(I1) |-> Vec([d \in 1..Len(I1[n]) |-> a * I1[n][d] + b * I2[n][d]])])

Scalars == {-1, 0, 2}

InitScore ==
    /\ users = <<"u1">>
    /\ items = <<"a">>
    /\ net = UserNet__init__(users, items, EmbDim, 0, 0)
    /\ constructed = net
    /\ pc = "idle"
    /\ call = NoCall
    /\ ret = NoRet
    /\ probe = NoProbe
    /\ \E u \in [1..EmbDim -> -1..1], n \in 1..2, s1 \in 0..MaxSeed + 1, s2 \in 0..MaxSeed + 1,
          a \in Scalars, b \in Scalars :
        lin = [phase |-> "on", u |-> u,
               I1 |-> ScoreMatrix(s1, n, EmbDim), I2 |-> ScoreMatrix(s2, n, EmbDim),
               a |-> a, b |-> b, r1 |-> NoRet, r2 |-> NoRet, r12 |-> NoRet]

Score_left ==
    /\ lin.r1 = NoRet
    /\ lin' = [lin EXCEPT !.r1 = score(lin.u, lin.I1)]
    /\ UNCHANGED <<users, items, net, constructed, pc, call, ret, probe>>

Score_right ==
    /\ lin.r2 = NoRet
    /\ lin' = [lin EXCEPT !.r2 = score(lin.u, lin.I2)]
    /\ UNCHANGED <<users, items, net, constructed, pc, call, ret, probe>>

Score_combination ==
    /\ lin.r12 = NoRet
    /\ lin' = [lin EXCEPT !.r12 = score(lin.u, LinearCombination(lin.a, lin.I1, lin.b, lin.I2))]
    /\ UNCHANGED <<users, items, net, constructed, pc, call, ret, probe>>

NextScore == Score_left \/ Score_right \/ Score_combination

SpecScore == InitScore /\ [][NextScore]_vars

-----------------------------------------------------------------------------
(* Properties *)

Range(list) == {list[i] : i \in 1..Len(list)}

IsUnique(list) == \A i, j \in 1..Len(list) : list[i] = list[j] => i = j

\* the last position of id in list, counted from 0
LastPosition(list, id) ==
    (CHOOSE i \in 1..Len(list) :
        list[i] = id /\ \A j \in 1..Len(list) : list[j] = id => j <= i) - 1

Returned(op) == pc = "returned" /\ call.op = op

UserKnown == call.user_id \in Range(users)

ItemsKnown == \A n \in 1..Len(call.item_ids) : call.item_ids[n] \in Range(items)

FusionEnabled == ~IsNone(net.feats)

\* the embedding the tables hold for the user and for the n-th item of the call
UserRow == net.user_embedding[LastPosition(users, call.user_id) + 1]

ItemRow(n) == net.item_embedding[LastPosition(items, call.item_ids[n]) + 1]

\* C1: a lookup of a user id that is not in the user list, or of item ids of
\* which one is not in the item list, raises the unknown-identity error
\* (KeyError) in _get_user, _get_items, get_items and forward, and gives back
\* no index and no vector.
C1_UnknownIdentityFails ==
    pc = "returned" =>
        /\ (call.op \in {"_get_user", "forward"} /\ ~UserKnown)
              => (ret.kind = "KeyError" /\ ret.value = <<>>)
        /\ (call.op \in {"_get_items", "get_items", "forward"} /\ ~ItemsKnown)
              => (ret.kind = "KeyError" /\ ret.value = <<>>)

C1_Witness ==
    /\ Returned("forward")
    /\ UserKnown
    /\ \E n, m \in 1..Len(call.item_ids) :
          call.item_ids[n] \in Range(items) /\ call.item_ids[m] \notin Range(items)
    /\ ret.kind = "KeyError"

DictOf(list, dict) ==
    /\ DOMAIN dict = Range(list)
    /\ \A i \in 1..Len(list) : dict[list[i]] = i - 1
    /\ \A x, y \in DOMAIN dict : dict[x] = dict[y] => x = y
    /\ \A x \in DOMAIN dict : dict[x] \in 0..(Len(list) - 1)

\* C2: a dictionary built from a list of unique identities has exactly the
\* identities of the list as keys, is injective, and maps each identity to
\* its position in the list, an index in [0, count).
C2_DictIsPositionMap ==
    /\ IsUnique(users) => DictOf(users, net.user_dict)
    /\ IsUnique(items) => DictOf(items, net.item_dict)

C2_Witness ==
    /\ IsUnique(users) /\ Len(users) = MaxUsers
    /\ IsUnique(items) /\ Len(items) = MaxItems
    /\ net.item_dict[items[MaxItems]] = MaxItems - 1

\* the weights are the softmax of the logits over the items: positive,
\* summing to 1, and in the ratio of the exponentials of their logits
IsSoftmaxOverItems(attn, N) ==
    /\ Len(attn.weights) = N
    /\ Len(attn.logits) = N
    /\ \A n \in 1..N : attn.weights[n][1] >= 0 /\ attn.weights[n][2] > 0
    /\ RatSum(attn.weights) = <<1, 1>>
    /\ LET m == MinSeq(attn.logits)
       IN  \A n, k \in 1..N :
              RatScale(Pow2(attn.logits[k] - m), attn.weights[n])
                = RatScale(Pow2(attn.logits[n] - m), attn.weights[k])

ForwardPools ==
    /\ ret.kind = "ok"
    /\ Len(ret.value) = net.emb_dim
    /\ IsSoftmaxOverItems(ret.attn, Len(call.item_ids))

\* C3 as amended: with fusion disabled, a known user and a non-empty sequence
\* of known items, forward returns a vector of dimension D, and its attention
\* weights are the softmax across the N items: one per item, non-negative,
\* summing to 1.
C3_WeightsSumToOne ==
    (Returned("forward") /\ ~FusionEnabled /\ UserKnown /\ ItemsKnown
        /\ Len(call.item_ids) >= 1) => ForwardPools

C3_Witness ==
    /\ Returned("forward") /\ ~FusionEnabled /\ UserKnown /\ ItemsKnown
    /\ Len(call.item_ids) = 3
    /\ ret.kind = "ok"
    /\ \E n, k \in 1..3 : ret.attn.weights[n] # ret.attn.weights[k]

\* C3 as stated: with fusion disabled, every call of forward with a known user
\* and known items returns a vector of dimension D with weights summing to 1.
C3_AsStated ==
    (Returned("forward") /\ ~FusionEnabled /\ UserKnown /\ ItemsKnown) => ForwardPools

\* C4: when forward is called with a known user and exactly one known item,
\* a returned vector is the user's embedding plus the item's embedding and
\* the single attention weight is 1, whatever the logit; and the call returns
\* whenever fusion is disabled or the features have one row of width F.
C4_SingleItem ==
    (Returned("forward") /\ UserKnown /\ ItemsKnown /\ Len(call.item_ids) = 1) =>
        /\ ret.kind = "ok" =>
              /\ ret.attn.weights = << <<1, 1>> >>
              /\ ret.value = [d \in 1..net.emb_dim |-> <<UserRow[d] + ItemRow(1)[d], 1>>]
        /\ ~FusionEnabled => ret.kind = "ok"
        /\ (FusionEnabled /\ ~IsNone(call.features)
              /\ call.features = FeatureValues(1, FeatureDim)) => ret.kind = "ok"

C4_Witness ==
    /\ Returned("forward") /\ Len(call.item_ids) = 1 /\ ret.kind = "ok"
    /\ ret.attn.logits # <<0>>
    /\ \E d \in 1..net.emb_dim : UserRow[d] # 0
    /\ \E d \in 1..net.emb_dim : ItemRow(1)[d] # 0

\* C5: with fusion enabled, forward called with known ids and without features
\* fails, returns no vector, and has entered no layer of the FeatureNet or of
\* the scoring network; with at least one item the failure is the conversion
\* of None to a tensor.
C5_MissingFeaturesFailFast ==
    (Returned("forward") /\ FusionEnabled /\ UserKnown /\ ItemsKnown
        /\ IsNone(call.features)) =>
        /\ ret.kind # "ok"
        /\ ret.value = <<>>
        /\ \A k \in 1..Len(ret.layers) : ret.layers[k] \notin {"feats.l1", "feats.l2", "l1", "l2"}
        /\ Len(call.item_ids) >= 1 => (ret.kind = "TypeError" /\ ret.at = "torch.tensor")

C5_Witness ==
    /\ Returned("forward") /\ FusionEnabled /\ UserKnown /\ ItemsKnown
    /\ IsNone(call.features)
    /\ Len(call.item_ids) = 2
    /\ ret.kind = "TypeError"

RECURSIVE Dot(_, _)
Dot(u, v) == IF u = <<>> THEN 0 ELSE Head(u) * Head(v) + Dot(Tail(u), Tail(v))

IsRowwiseDot(r, u, I) ==
    /\ r.kind = "ok"
    /\ Len(r.value) = Len(I)
    /\ \A n \in 1..Len(I) : r.value[n] = Dot(u, I[n])

\* C6: score(u, I) is the vector of the dot products of u with the rows of I,
\* and score(u, a*I1 + b*I2) = a*score(u, I1) + b*score(u, I2).
C6_ScoreIsLinear ==
    lin.phase = "on" =>
        /\ lin.r1 # NoRet => IsRowwiseDot(lin.r1, lin.u, lin.I1)
        /\ lin.r2 # NoRet => IsRowwiseDot(lin.r2, lin.u, lin.I2)
        /\ (lin.r1 # NoRet /\ lin.r2 # NoRet /\ lin.r12 # NoRet) =>
              /\ lin.r12.kind = "ok"
              /\ lin.r12.value =
                    [n \in 1..Len(lin.I1) |-> lin.a * lin.r1.value[n] + lin.b * lin.r2.value[n]]

C6_Witness ==
    /\ lin.phase = "on"
    /\ lin.r1 # NoRet /\ lin.r2 # NoRet /\ lin.r12 # NoRet
    /\ Len(lin.I1) = 2 /\ lin.I1 # lin.I2
    /\ lin.a = 2 /\ lin.b = -1
    /\ \E n \in 1..2 : lin.r12.value[n] # 0 /\ lin.r1.value[n] # 0 /\ lin.r2.value[n] # 0

\* C7: no call changes the object: the dictionaries, both embedding tables,
\* the parameters of l1 and l2 and the presence (and parameters) of the
\* FeatureNet are what construction left, after any sequence of calls.
C7_NoSideEffects ==
    /\ net = constructed
    /\ net.user_dict = create_dict(users)
    /\ net.item_dict = create_dict(items)

C7_Witness ==
    /\ Returned("forward") /\ ret.kind = "ok" /\ FusionEnabled
    /\ net = constructed

\* C8: a call of forward or score that repeats the first call of the run, with
\* the same arguments, gives the same result as the first call gave, whatever
\* calls were made in between.
C8_RepeatedCallsAgree ==
    (pc = "returned" /\ probe.armed /\ call.op \in {"forward", "score"}
        /\ call.op = probe.call.op /\ call = probe.call) => ret = probe.ret

C8_Witness ==
    /\ Returned("forward") /\ probe.armed /\ probe.others
    /\ probe.call.op = "forward" /\ call = probe.call
    /\ ret.kind = "ok"
    /\ \E n, k \in 1..Len(ret.attn.logits) : ret.attn.logits[n] # ret.attn.logits[k]

\* C9: with fusion disabled, when every one of the N >= 1 items of a call of
\* forward gets the same logit, each weight is 1/N and the result is the
\* user's embedding plus the mean of the N item embeddings.
C9_EqualLogitsGiveMean ==
    (Returned("forward") /\ ~FusionEnabled /\ ret.kind = "ok"
        /\ \A n, k \in 1..Len(ret.attn.logits) : ret.attn.logits[n] = ret.attn.logits[k]) =>
        LET N == Len(call.item_ids)
        IN  /\ N >= 1
            /\ ret.attn.weights = [n \in 1..N |-> Rat(1, N)]
            /\ ret.value = [d \in 1..net.emb_dim |->
                              Rat(N * UserRow[d] + SumSeq([n \in 1..N |-> ItemRow(n)[d]]), N)]

C9_Witness ==
    /\ Returned("forward") /\ ~FusionEnabled /\ ret.kind = "ok"
    /\ Len(call.item_ids) = 3
    /\ ret.attn.weights = << <<1, 3>>, <<1, 3>>, <<1, 3>> >>
    /\ \E n, k \in 1..3 : ItemRow(n) # ItemRow(k)
    /\ \E d \in 1..net.emb_dim : ret.value[d][2] = 3

\* C10: for any identity list, repeated identities included, the tables have
\* as many rows as the list, every index a successful _get_user or _get_items
\* returns is the last position of its identity and a row of the table, and
\* no call of get_items or forward fails on an index out of range.
C10_IndicesInRange ==
    /\ Len(net.user_embedding) = Len(users)
    /\ Len(net.item_embedding) = Len(items)
    /\ (Returned("_get_user") /\ ret.kind = "ok") =>
          /\ ret.value = LastPosition(users, call.user_id)
          /\ 0 <= ret.value /\ ret.value < Len(net.user_embedding)
    /\ (Returned("_get_items") /\ ret.kind = "ok") =>
          \A n \in 1..Len(call.item_ids) :
              /\ ret.value.data[n] = LastPosition(items, call.item_ids[n])
              /\ 0 <= ret.value.data[n] /\ ret.value.data[n] < Len(net.item_embedding)
    /\ pc = "returned" => ret.kind # "IndexError"

C10_Witness ==
    /\ ~IsUnique(items)
    /\ Returned("_get_items") /\ ret.kind = "ok"
    /\ Len(call.item_ids) >= 1
    /\ ret.value.data[1] = Len(items) - 1

====
